---- MODULE Spec2Model ----
(***************************************************************************)
(* Face Swap QA checklist (src/app.py): the evaluator, the checklist       *)
(* window's handlers and the CSV log they append to and export.            *)
(*                                                                         *)
(* A Python str is a sequence of atoms: an atom is either one whitespace   *)
(* character (" ") or a text that neither starts nor ends with whitespace  *)
(* ("x", "True", a fail reason).  A CSV file is its sequence of parsed     *)
(* lines, each a sequence of cells (strs), plus whether its last line      *)
(* still lacks the line terminator.  Non-ASCII characters of the source's  *)
(* literals are transliterated ("->" for the arrow, "-" for the dash, no   *)
(* emoji).                                                                 *)
(***************************************************************************)
EXTENDS Integers, Sequences, FiniteSets, TLC

(* ------------------------------ bounds --------------------------------- *)

\* Unticked boxes of categories B..H a reviewer leaves at once (SpecUI).
MaxUnticked == 2
\* The same, while reviews are being saved and exported (Spec).
MaxStoreUnticked == 0
\* Characters typed into the three text fields together (Spec).
MaxChars == 0
\* The same, on a disk that never fails (SpecForm).
MaxFormChars == 2
\* Data lines of the log file.
MaxRows == 1
\* Distinct clock readings (seconds).
MaxClock == 1
\* Cells of a row that reach the disk before a write fails.
MaxPartial == 1
\* False values, and absent keys, of a dict handed to evaluate (SpecEval).
MaxFalse == 2
MaxMissing == 1
\* Characters of the notes handed to verdict_line (SpecVerdict).
MaxNoteChars == 3

VARIABLES
    vars,           \* self.vars: check-id -> BooleanVar value
    job_id_var,     \* self.job_id_var
    reviewer_var,   \* self.reviewer_var
    notes_var,      \* self.notes_var
    result_big,     \* text of the big result label
    reason_label,   \* text of the reason label
    log,            \* the file at self.log_path
    out,            \* what the latest handler did: dialog, row, file written
    arg,            \* a dict handed to evaluate by a direct caller
    ret             \* what that call returned or raised

allVars == <<vars, job_id_var, reviewer_var, notes_var, result_big,
             reason_label, log, out, arg, ret>>

(* ---------------------------- program data ----------------------------- *)

FAIL_REASONS ==
    << "missing required image(s)",
       "source identity not clear enough",
       "target expression/pose not verifiable",
       "identity not preserved",
       "expression mismatch (Target -> Output)",
       "head pose mismatch (Target -> Output)",
       "mouth position mismatch (Target -> Output)",
       "visible artifacts / unrealistic blending",
       "gender/body inconsistency",
       "skin tone/lighting inconsistency",
       "unnatural hair blending",
       "anatomical artifact / logical inconsistency" >>

\* The keys of self.vars in insertion order, and each one's default.
VarKeys ==
    << "a_source_provided", "a_target_provided", "a_output_provided",
       "b_source_face_clear", "b_source_no_distortions",
       "c_target_expression_readable", "c_target_pose_readable",
       "c_target_mouth_readable",
       "d_output_identity_preserved", "d_output_features_match",
       "e_expression_match", "e_pose_match", "e_mouth_match",
       "f_no_cutout_edges", "f_no_warping", "f_no_double_features",
       "f_sharpness_consistent", "f_lighting_consistent",
       "g_no_gender_body_mismatch", "g_skin_tone_matches", "g_no_weird_tint",
       "g_hairline_natural", "g_no_hair_overlap_weirdness",
       "h_no_disfigured_limbs", "h_no_extra_missing_limbs",
       "h_no_background_glitch" >>

CheckIds == {VarKeys[i] : i \in 1..Len(VarKeys)}

InputIds == {"a_source_provided", "a_target_provided", "a_output_provided"}

VarDefault(k) == k \notin InputIds

\* The code points of each check-id, which Python's sorted() compares.
Spelling ==
    [a_source_provided |-> <<97, 95, 115, 111, 117, 114, 99, 101, 95, 112, 114, 111, 118, 105, 100, 101, 100>>,
     a_target_provided |-> <<97, 95, 116, 97, 114, 103, 101, 116, 95, 112, 114, 111, 118, 105, 100, 101, 100>>,
     a_output_provided |-> <<97, 95, 111, 117, 116, 112, 117, 116, 95, 112, 114, 111, 118, 105, 100, 101, 100>>,
     b_source_face_clear |-> <<98, 95, 115, 111, 117, 114, 99, 101, 95, 102, 97, 99, 101, 95, 99, 108, 101, 97, 114>>,
     b_source_no_distortions |-> <<98, 95, 115, 111, 117, 114, 99, 101, 95, 110, 111, 95, 100, 105, 115, 116, 111, 114, 116, 105, 111, 110, 115>>,
     c_target_expression_readable |-> <<99, 95, 116, 97, 114, 103, 101, 116, 95, 101, 120, 112, 114, 101, 115, 115, 105, 111, 110, 95, 114, 101, 97, 100, 97, 98, 108, 101>>,
     c_target_pose_readable |-> <<99, 95, 116, 97, 114, 103, 101, 116, 95, 112, 111, 115, 101, 95, 114, 101, 97, 100, 97, 98, 108, 101>>,
     c_target_mouth_readable |-> <<99, 95, 116, 97, 114, 103, 101, 116, 95, 109, 111, 117, 116, 104, 95, 114, 101, 97, 100, 97, 98, 108, 101>>,
     d_output_identity_preserved |-> <<100, 95, 111, 117, 116, 112, 117, 116, 95, 105, 100, 101, 110, 116, 105, 116, 121, 95, 112, 114, 101, 115, 101, 114, 118, 101, 100>>,
     d_output_features_match |-> <<100, 95, 111, 117, 116, 112, 117, 116, 95, 102, 101, 97, 116, 117, 114, 101, 115, 95, 109, 97, 116, 99, 104>>,
     e_expression_match |-> <<101, 95, 101, 120, 112, 114, 101, 115, 115, 105, 111, 110, 95, 109, 97, 116, 99, 104>>,
     e_pose_match |-> <<101, 95, 112, 111, 115, 101, 95, 109, 97, 116, 99, 104>>,
     e_mouth_match |-> <<101, 95, 109, 111, 117, 116, 104, 95, 109, 97, 116, 99, 104>>,
     f_no_cutout_edges |-> <<102, 95, 110, 111, 95, 99, 117, 116, 111, 117, 116, 95, 101, 100, 103, 101, 115>>,
     f_no_warping |-> <<102, 95, 110, 111, 95, 119, 97, 114, 112, 105, 110, 103>>,
     f_no_double_features |-> <<102, 95, 110, 111, 95, 100, 111, 117, 98, 108, 101, 95, 102, 101, 97, 116, 117, 114, 101, 115>>,
     f_sharpness_consistent |-> <<102, 95, 115, 104, 97, 114, 112, 110, 101, 115, 115, 95, 99, 111, 110, 115, 105, 115, 116, 101, 110, 116>>,
     f_lighting_consistent |-> <<102, 95, 108, 105, 103, 104, 116, 105, 110, 103, 95, 99, 111, 110, 115, 105, 115, 116, 101, 110, 116>>,
     g_no_gender_body_mismatch |-> <<103, 95, 110, 111, 95, 103, 101, 110, 100, 101, 114, 95, 98, 111, 100, 121, 95, 109, 105, 115, 109, 97, 116, 99, 104>>,
     g_skin_tone_matches |-> <<103, 95, 115, 107, 105, 110, 95, 116, 111, 110, 101, 95, 109, 97, 116, 99, 104, 101, 115>>,
     g_no_weird_tint |-> <<103, 95, 110, 111, 95, 119, 101, 105, 114, 100, 95, 116, 105, 110, 116>>,
     g_hairline_natural |-> <<103, 95, 104, 97, 105, 114, 108, 105, 110, 101, 95, 110, 97, 116, 117, 114, 97, 108>>,
     g_no_hair_overlap_weirdness |-> <<103, 95, 110, 111, 95, 104, 97, 105, 114, 95, 111, 118, 101, 114, 108, 97, 112, 95, 119, 101, 105, 114, 100, 110, 101, 115, 115>>,
     h_no_disfigured_limbs |-> <<104, 95, 110, 111, 95, 100, 105, 115, 102, 105, 103, 117, 114, 101, 100, 95, 108, 105, 109, 98, 115>>,
     h_no_extra_missing_limbs |-> <<104, 95, 110, 111, 95, 101, 120, 116, 114, 97, 95, 109, 105, 115, 115, 105, 110, 103, 95, 108, 105, 109, 98, 115>>,
     h_no_background_glitch |-> <<104, 95, 110, 111, 95, 98, 97, 99, 107, 103, 114, 111, 117, 110, 100, 95, 103, 108, 105, 116, 99, 104>>]

(* ------------------------------ evaluate ------------------------------- *)

\* A variant of the rule chain that asks the mouth rule before the pose rule
\* (not the source's order).
RulesMouthBeforePose ==
    << [keys |-> <<"a_source_provided", "a_target_provided", "a_output_provided">>,
        eager |-> FALSE, reason |-> "missing required image(s)"],
       [keys |-> <<"b_source_face_clear", "b_source_no_distortions">>,
        eager |-> FALSE, reason |-> "source identity not clear enough"],
       [keys |-> <<"c_target_expression_readable", "c_target_pose_readable",
                   "c_target_mouth_readable">>,
        eager |-> FALSE, reason |-> "target expression/pose not verifiable"],
       [keys |-> <<"d_output_identity_preserved", "d_output_features_match">>,
        eager |-> FALSE, reason |-> "identity not preserved"],
       [keys |-> <<"e_expression_match">>,
        eager |-> FALSE, reason |-> "expression mismatch (Target -> Output)"],
       [keys |-> <<"e_mouth_match">>,
        eager |-> FALSE, reason |-> "mouth position mismatch (Target -> Output)"],
       [keys |-> <<"e_pose_match">>,
        eager |-> FALSE, reason |-> "head pose mismatch (Target -> Output)"],
       [keys |-> <<"f_no_cutout_edges", "f_no_warping", "f_no_double_features",
                   "f_sharpness_consistent", "f_lighting_consistent">>,
        eager |-> TRUE, reason |-> "visible artifacts / unrealistic blending"],
       [keys |-> <<"g_no_gender_body_mismatch">>,
        eager |-> FALSE, reason |-> "gender/body inconsistency"],
       [keys |-> <<"g_skin_tone_matches", "g_no_weird_tint">>,
        eager |-> FALSE, reason |-> "skin tone/lighting inconsistency"],
       [keys |-> <<"g_hairline_natural", "g_no_hair_overlap_weirdness">>,
        eager |-> FALSE, reason |-> "unnatural hair blending"],
       [keys |-> <<"h_no_disfigured_limbs", "h_no_extra_missing_limbs",
                   "h_no_background_glitch">>,
        eager |-> FALSE, reason |-> "anatomical artifact / logical inconsistency"] >>

\* The rule chain of evaluate in source order.  A rule reads its keys left
\* to right and fails at the first false one ("and"/"or" short-circuit);
\* rule F builds the list of all five values before all() looks at any.
Rules ==
    << [keys |-> <<"a_source_provided", "a_target_provided", "a_output_provided">>,
        eager |-> FALSE, reason |-> "missing required image(s)"],
       [keys |-> <<"b_source_face_clear", "b_source_no_distortions">>,
        eager |-> FALSE, reason |-> "source identity not clear enough"],
       [keys |-> <<"c_target_expression_readable", "c_target_pose_readable",
                   "c_target_mouth_readable">>,
        eager |-> FALSE, reason |-> "target expression/pose not verifiable"],
       [keys |-> <<"d_output_identity_preserved", "d_output_features_match">>,
        eager |-> FALSE, reason |-> "identity not preserved"],
       [keys |-> <<"e_expression_match">>,
        eager |-> FALSE, reason |-> "expression mismatch (Target -> Output)"],
       [keys |-> <<"e_pose_match">>,
        eager |-> FALSE, reason |-> "head pose mismatch (Target -> Output)"],
       [keys |-> <<"e_mouth_match">>,
        eager |-> FALSE, reason |-> "mouth position mismatch (Target -> Output)"],
       [keys |-> <<"f_no_cutout_edges", "f_no_warping", "f_no_double_features",
                   "f_sharpness_consistent", "f_lighting_consistent">>,
        eager |-> TRUE, reason |-> "visible artifacts / unrealistic blending"],
       [keys |-> <<"g_no_gender_body_mismatch">>,
        eager |-> FALSE, reason |-> "gender/body inconsistency"],
       [keys |-> <<"g_skin_tone_matches", "g_no_weird_tint">>,
        eager |-> FALSE, reason |-> "skin tone/lighting inconsistency"],
       [keys |-> <<"g_hairline_natural", "g_no_hair_overlap_weirdness">>,
        eager |-> FALSE, reason |-> "unnatural hair blending"],
       [keys |-> <<"h_no_disfigured_limbs", "h_no_extra_missing_limbs",
                   "h_no_background_glitch">>,
        eager |-> FALSE, reason |-> "anatomical artifact / logical inconsistency"] >>

KeyError == [exc |-> "KeyError", result |-> "", reason |-> ""]

Returned(result, reason) == [exc |-> "", result |-> result, reason |-> reason]

\* One rule on a dict: "KeyError" when a key it reads is absent, "fail" when
\* the rule's condition holds, "pass" otherwise.
RECURSIVE ReadLazy(_, _, _)
ReadLazy(checks, keys, i) ==
    IF i > Len(keys) THEN "pass"
    ELSE IF keys[i] \notin DOMAIN checks THEN "KeyError"
    ELSE IF ~checks[keys[i]] THEN "fail"
    ELSE ReadLazy(checks, keys, i + 1)

ReadEager(checks, keys) ==
    IF \E i \in 1..Len(keys) : keys[i] \notin DOMAIN checks THEN "KeyError"
    ELSE IF \E i \in 1..Len(keys) : ~checks[keys[i]] THEN "fail"
    ELSE "pass"

RuleOutcome(checks, rule) ==
    IF rule.eager THEN ReadEager(checks, rule.keys)
    ELSE ReadLazy(checks, rule.keys, 1)

RECURSIVE EvaluateFrom(_, _)
EvaluateFrom(checks, i) ==
    IF i > Len(Rules) THEN Returned("PASS", "")
    ELSE LET o == RuleOutcome(checks, Rules[i])
         IN  IF o = "KeyError" THEN KeyError
             ELSE IF o = "fail" THEN Returned("FAIL", Rules[i].reason)
             ELSE EvaluateFrom(checks, i + 1)

evaluate(checks) == EvaluateFrom(checks, 1)

(* ------------------------------- strings ------------------------------- *)

Whitespace == {" "}

Alphabet == {" ", "x"}

Strs(n) == UNION {[1..m -> Alphabet] : m \in 0..n}

RECURSIVE LStrip(_)
LStrip(s) ==
    IF s # <<>> /\ Head(s) \in Whitespace THEN LStrip(Tail(s)) ELSE s

RECURSIVE RStrip(_)
RStrip(s) ==
    IF s # <<>> /\ s[Len(s)] \in Whitespace
    THEN RStrip(SubSeq(s, 1, Len(s) - 1))
    ELSE s

\* A variant that strips the left end only (str.lstrip()).
StripLeftOnly(s) == LStrip(s)

\* str.strip()
Strip(s) == RStrip(LStrip(s))

\* str(value) of a cell value: a bool gives "True"/"False", a str itself.
Bool(b) == [t |-> "bool", v |-> b]

Str(s) == [t |-> "str", v |-> s]

\* A variant that spells booleans in lower case.
PyStrLowercase(value) ==
    IF value.t = "bool"
    THEN (IF value.v THEN <<"true">> ELSE <<"false">>)
    ELSE value.v

PyStr(value) ==
    IF value.t = "bool"
    THEN (IF value.v THEN <<"True">> ELSE <<"False">>)
    ELSE value.v

(* ----------------------------- the window ------------------------------ *)

NoFile == [exists |-> FALSE, lines |-> <<>>, torn |-> FALSE]

NoRow == [keys |-> <<>>, val |-> <<>>]

\* out after a handler that shows no dialog and writes no file.
Idle ==
    [op |-> "edit", msg |-> "", row |-> NoRow, written |-> <<>>,
     fault |-> "none", readFault |-> FALSE, path |-> "",
     before |-> NoFile, dest |-> NoFile]

NotCalled == [exc |-> "", result |-> "", reason |-> ""]

get_checks == vars

\* update_result on the checklist `checks`: the two labels.
UpdateResult(checks) ==
    LET r == evaluate(checks)
    IN  /\ result_big' = r.result
        /\ reason_label' =
              IF r.result = "PASS" THEN "Primary fail reason: (none)"
              ELSE "Primary fail reason: " \o r.reason

Unticked(checks) == {k \in CheckIds \ InputIds : ~checks[k]}

\* The characters in the three entries together.
Chars(job, reviewer, notes) == Len(job) + Len(reviewer) + Len(notes)

\* A click on the check box of k: the variable's write trace runs
\* update_result.  `limit` bounds the boxes left unticked.
Toggle(k, limit) ==
    /\ Cardinality(Unticked(vars) \ {k}) < limit \/ k \in InputIds \/ ~vars[k]
    /\ vars' = [vars EXCEPT ![k] = ~@]
    /\ UpdateResult(vars')
    /\ out' = Idle
    /\ UNCHANGED <<job_id_var, reviewer_var, notes_var, log, arg, ret>>

mark_all_ok ==
    /\ vars' = [k \in CheckIds |-> IF k \in InputIds THEN vars[k] ELSE TRUE]
    /\ UpdateResult(vars')
    /\ out' = Idle
    /\ UNCHANGED <<job_id_var, reviewer_var, notes_var, log, arg, ret>>

reset_all(confirmed) ==
    /\ IF confirmed
       THEN /\ job_id_var' = <<>>
            /\ reviewer_var' = <<>>
            /\ notes_var' = <<>>
            /\ vars' = [k \in CheckIds |-> VarDefault(k)]
            /\ UpdateResult(vars')
       ELSE UNCHANGED <<job_id_var, reviewer_var, notes_var, vars,
                        result_big, reason_label>>
    /\ out' = Idle
    /\ UNCHANGED <<log, arg, ret>>

\* Typing into an entry replaces the variable's text; only notes_var has a
\* trace, and it runs update_result.  `limit` bounds the characters typed.
EditJobId(s, limit) ==
    /\ Chars(s, reviewer_var, notes_var) <= limit
    /\ job_id_var' = s
    /\ out' = Idle
    /\ UNCHANGED <<vars, reviewer_var, notes_var, result_big, reason_label,
                   log, arg, ret>>

EditReviewer(s, limit) ==
    /\ Chars(job_id_var, s, notes_var) <= limit
    /\ reviewer_var' = s
    /\ out' = Idle
    /\ UNCHANGED <<vars, job_id_var, notes_var, result_big, reason_label,
                   log, arg, ret>>

EditNotes(s, limit) ==
    /\ Chars(job_id_var, reviewer_var, s) <= limit
    /\ notes_var' = s
    /\ UpdateResult(vars)
    /\ out' = Idle
    /\ UNCHANGED <<vars, job_id_var, reviewer_var, log, arg, ret>>

\* A direct call of evaluate on the dict `arg`.
CallEvaluate ==
    /\ ret = NotCalled
    /\ ret' = evaluate(arg)
    /\ UNCHANGED <<vars, job_id_var, reviewer_var, notes_var, result_big,
                   reason_label, log, out, arg>>

(* ----------------------------- the CSV log ----------------------------- *)

LogPath == "faceswap_qa_log.csv"

OtherPath == "export.csv"

MetaKeys ==
    <<"timestamp", "job_id", "reviewer", "result", "primary_fail_reason", "notes">>

Range(s) == {s[i] : i \in 1..Len(s)}

\* Python's str comparison on two sequences of code points.
RECURSIVE LexLess(_, _)
LexLess(a, b) ==
    IF b = <<>> THEN FALSE
    ELSE IF a = <<>> THEN TRUE
    ELSE IF Head(a) # Head(b) THEN Head(a) < Head(b)
    ELSE LexLess(Tail(a), Tail(b))

\* Whether check-id a sorts before check-id b.
Precedes ==
    [a \in CheckIds, b \in CheckIds |-> LexLess(Spelling[a], Spelling[b])]

RECURSIVE Insert(_, _)
Insert(sortedKeys, k) ==
    IF sortedKeys = <<>> THEN <<k>>
    ELSE IF Precedes[k, Head(sortedKeys)]
         THEN <<k>> \o sortedKeys
         ELSE <<Head(sortedKeys)>> \o Insert(Tail(sortedKeys), k)

RECURSIVE SortFrom(_, _)
SortFrom(keys, done) ==
    IF keys = <<>> THEN done
    ELSE SortFrom(Tail(keys), Insert(done, Head(keys)))

\* A variant that keeps the keys in the order given (no sorting).
InsertionOrder(keys) == keys

\* sorted(keys)
Sorted(keys) == SortFrom(keys, <<>>)

\* checks.keys(): the keys of a dict built from self.vars, in its order.
DictKeys(checks) == SelectSeq(VarKeys, LAMBDA k : k \in DOMAIN checks)

\* datetime.now().isoformat(timespec="seconds") at clock reading `now`.
IsoFormat(now) == <<"2026-11-02T15:00:0" \o ToString(now)>>

\* The text of a verdict field: the empty string has no atoms.
Text(s) == IF s = "" THEN <<>> ELSE <<s>>

\* The row dict of save_row: its keys in insertion order and their values.
BuildRow(checks, now) ==
    LET r == evaluate(checks)
        meta == [timestamp |-> Str(IsoFormat(now)),
                 job_id |-> Str(Strip(job_id_var)),
                 reviewer |-> Str(Strip(reviewer_var)),
                 result |-> Str(Text(r.result)),
                 primary_fail_reason |-> Str(Text(r.reason)),
                 notes |-> Str(Strip(notes_var))]
    IN  [keys |-> MetaKeys \o Sorted(DictKeys(checks)),
         val |-> [k \in Range(MetaKeys) \cup DOMAIN checks |->
                    IF k \in Range(MetaKeys) THEN meta[k] ELSE Bool(checks[k])]]

\* The header line csv.DictWriter.writeheader writes for these field names.
HeaderCells(keys) == [i \in 1..Len(keys) |-> <<keys[i]>>]

\* next(reader, None) on the file: its first line, or nothing (falsy).
ReadHeader(file) == IF file.lines = <<>> THEN <<>> ELSE file.lines[1]

\* A variant that always writes with the row's own key order.
FreshHeaders(file, readFault, rowKeys) == HeaderCells(rowKeys)

\* The field names _append_csv writes with: the existing header's when it
\* can be read and names the same set of columns, the row's keys otherwise.
AppendHeaders(file, readFault, rowKeys) ==
    LET fresh == HeaderCells(rowKeys)
        existing == ReadHeader(file)
    IN  IF file.exists /\ ~readFault
           /\ existing # <<>> /\ Range(existing) = Range(fresh)
        THEN existing
        ELSE fresh

\* DictWriter.writerow: the row's values under the field names, as text
\* (a field name the row lacks gives the empty restval).
WriteRow(headers, row) ==
    [i \in 1..Len(headers) |->
        IF Len(headers[i]) = 1 /\ headers[i][1] \in DOMAIN row.val
        THEN PyStr(row.val[headers[i][1]])
        ELSE <<>>]

\* DictWriter raises ValueError for a row key that is no field name.
WrongFields(headers, row) ==
    LET fields == Range(headers)
    IN  \E k \in DOMAIN row.val : <<k>> \notin fields

\* The file after `cells` are written at its end, with or without the line
\* terminator; bytes written after an unterminated line continue that line.
AppendCells(file, cells, complete) ==
    LET n == Len(file.lines)
        last == file.lines[n]
        joined == SubSeq(last, 1, Len(last) - 1)
                    \o <<last[Len(last)] \o cells[1]>> \o Tail(cells)
    IN  [exists |-> TRUE,
         lines |-> IF file.torn /\ n > 0
                   THEN SubSeq(file.lines, 1, n - 1) \o <<joined>>
                   ELSE Append(file.lines, cells),
         torn |-> ~complete]

Faults == {"none", "open", "flush", "header", "partial"}

\* The file _append_csv leaves at `path`.  fault: "open", open(path, "a")
\* raises; "flush", nothing of the buffered text reaches the disk; "header",
\* only the header line does; "partial", the header and the row's first
\* `cut` cells do; "none", all of it does.
AppendedFile(file, headers, cells, fault, cut) ==
    LET opened == [file EXCEPT !.exists = TRUE]
        headed == IF file.exists THEN opened
                  ELSE AppendCells(opened, headers, TRUE)
    IN  CASE fault = "open" -> file
          [] fault = "flush" -> opened
          [] fault = "header" -> headed
          [] fault = "partial" -> AppendCells(headed, SubSeq(cells, 1, cut), FALSE)
          [] OTHER -> AppendCells(headed, cells, TRUE)

\* The lines of a file that are not a header line.
DataRows(file) ==
    Cardinality({i \in 1..Len(file.lines) : file.lines[i][1] # <<"timestamp">>})

\* A variant that shows "Saved" whatever happened.
AlwaysSaved(fault, wrongFields) == "Saved"

\* The dialog save_row shows: "Saved" unless _append_csv raised.
SaveDialog(fault, wrongFields) ==
    IF fault # "none" \/ wrongFields THEN "Error" ELSE "Saved"

\* Save Row.  The environment supplies the clock reading, whether reading the
\* existing header fails, and how the append fails, if it does drawn from the
\* given sets (explored: at most one failure per call, and no partial write
\* onto a line that a partial write left open).
save_row(readFaults, faults) ==
    \E now \in 1..MaxClock :
    \E row \in {BuildRow(get_checks, now)} :
    \E readFault \in {r \in readFaults : r => log.exists} :
    \E headers \in {AppendHeaders(log, readFault, row.keys)} :
    \E cells \in {WriteRow(headers, row)} :
    \E wrong \in {WrongFields(headers, row)} :
    \E fault \in {f \in faults : /\ f = "header" => ~log.exists
                                 /\ f = "partial" => ~log.torn
                                 /\ readFault => f = "none"} :
    \E cut \in 1..MaxPartial :
        /\ cut <= Len(cells)
        /\ log' = IF wrong THEN AppendedFile(log, headers, cells, "header", cut)
                  ELSE AppendedFile(log, headers, cells, fault, cut)
        /\ DataRows(log') <= MaxRows
        /\ out' = [op |-> "save_row", msg |-> SaveDialog(fault, wrong),
                   row |-> row, written |-> cells, fault |-> fault,
                   readFault |-> readFault, path |-> LogPath,
                   before |-> log, dest |-> NoFile]
        /\ UNCHANGED <<vars, job_id_var, reviewer_var, notes_var, result_big,
                       reason_label, arg, ret>>

EmptyFile == [exists |-> TRUE, lines |-> <<>>, torn |-> FALSE]

\* The file export_csv leaves at the destination: a copy of the log, or the
\* header line alone when there is no log.  open(path, "wb"/"w") empties the
\* destination before anything is read or written.
ExportedFile(source, fault) ==
    IF fault = "flush" THEN EmptyFile
    ELSE IF source.exists THEN source
    ELSE [exists |-> TRUE,
          lines |-> <<HeaderCells(MetaKeys \o Sorted(DictKeys(get_checks)))>>,
          torn |-> FALSE]

\* Export CSV to the path the file dialog returns ("" when cancelled).
export_csv(path, fault) ==
    IF path = ""
    THEN /\ out' = Idle
         /\ UNCHANGED <<vars, job_id_var, reviewer_var, notes_var, result_big,
                        reason_label, log, arg, ret>>
    ELSE \* what src.read() returns once the destination is open
         \E source \in {IF path = LogPath /\ log.exists THEN EmptyFile ELSE log} :
         \E dest \in {ExportedFile(source, fault)} :
             /\ log' = IF fault # "open" /\ path = LogPath THEN dest ELSE log
             /\ out' = [op |-> "export_csv",
                        msg |-> IF fault = "none" THEN "Exported" ELSE "Error",
                        row |-> NoRow, written |-> <<>>, fault |-> fault,
                        readFault |-> FALSE, path |-> path, before |-> log,
                        dest |-> IF fault = "open" THEN NoFile ELSE dest]
             /\ UNCHANGED <<vars, job_id_var, reviewer_var, notes_var,
                            result_big, reason_label, arg, ret>>

\* Logs found at self.log_path when the window opens: none; one whose header
\* a writer that did not sort the check-ids wrote; one written before the
\* last check-id existed.
InitialLogs ==
    { NoFile,
      [exists |-> TRUE, lines |-> <<HeaderCells(MetaKeys \o VarKeys)>>,
       torn |-> FALSE],
      [exists |-> TRUE,
       lines |-> <<HeaderCells(MetaKeys \o SubSeq(VarKeys, 1, Len(VarKeys) - 1))>>,
       torn |-> FALSE] }

(* ----------------------------- verdict_line ---------------------------- *)

\* Python's None, for a notes argument that is missing.
None == [t |-> "none", v |-> <<>>]

\* `value or ""`: the value unless it is falsy (None or the empty str).
OrEmpty(value) == IF value.t = "none" THEN <<>> ELSE value.v

\* The sentence returned for PASS.
PassLine ==
    <<"PASS - natural blend, Source identity preserved, Target expression/pose/mouth matched.">>

\* f"FAIL - Primary: {primary_reason}."
FailBase(primary_reason) ==
    <<"FAIL", " ", "-", " ", "Primary:", " ">> \o Text(primary_reason) \o <<".">>

\* f" Notes: {notes}"
NotesSuffix(notes) == <<" ", "Notes:", " ">> \o notes

\* A variant that appends the notes as given, without stripping them.
verdict_line_raw_notes(result, primary_reason, notes) ==
    IF result = "PASS" THEN PassLine
    ELSE IF OrEmpty(notes) # <<>>
         THEN FailBase(primary_reason) \o NotesSuffix(OrEmpty(notes))
         ELSE FailBase(primary_reason)

verdict_line(result, primary_reason, notes) ==
    IF result = "PASS" THEN PassLine
    ELSE LET stripped == Strip(OrEmpty(notes))
         IN  IF stripped # <<>>
             THEN FailBase(primary_reason) \o NotesSuffix(stripped)
             ELSE FailBase(primary_reason)

\* What a call of verdict_line returned.
Line(s) == [exc |-> "", line |-> s]

\* A direct call of verdict_line on the arguments `arg`.
CallVerdictLine ==
    /\ ret = NotCalled
    /\ ret' = Line(verdict_line(arg.result, arg.reason, arg.notes))
    /\ UNCHANGED <<vars, job_id_var, reviewer_var, notes_var, result_big,
                   reason_label, log, out, arg>>

\* The Copy Verdict button: the line for the window's checks and notes goes
\* to the clipboard (kept in ret) and a dialog confirms it.
copy_verdict ==
    /\ \E r \in {evaluate(get_checks)} :
          ret' = Line(verdict_line(r.result, r.reason, Str(notes_var)))
    /\ out' = [Idle EXCEPT !.op = "copy_verdict", !.msg = "Copied"]
    /\ UNCHANGED <<vars, job_id_var, reviewer_var, notes_var, result_big,
                   reason_label, log, arg>>

(* --------------------------- specifications ---------------------------- *)

RECURSIVE SubsetsUpTo(_, _)
SubsetsUpTo(S, n) ==
    IF n = 0 THEN {{}}
    ELSE LET smaller == SubsetsUpTo(S, n - 1)
         IN  smaller \cup {T \cup {x} : T \in smaller, x \in S}

\* The window after App.__init__: inputs unticked, the rest ticked, the
\* fields empty, update_result run once.
InitWindow ==
    /\ vars = [k \in CheckIds |-> VarDefault(k)]
    /\ job_id_var = <<>>
    /\ reviewer_var = <<>>
    /\ notes_var = <<>>
    /\ result_big = "FAIL"
    /\ reason_label = "Primary fail reason: missing required image(s)"
    /\ out = Idle

InitUI ==
    /\ InitWindow
    /\ log = NoFile
    /\ arg = <<>>
    /\ ret = NotCalled

NextUI ==
    \/ \E k \in CheckIds : Toggle(k, MaxUnticked)
    \/ mark_all_ok
    \/ \E c \in BOOLEAN : reset_all(c)

SpecUI == InitUI /\ [][NextUI]_allVars

\* Direct calls of evaluate on dicts that may lack keys.
InitEval ==
    /\ InitWindow
    /\ log = NoFile
    /\ \E missing \in SubsetsUpTo(CheckIds, MaxMissing) :
         \E false \in SubsetsUpTo(CheckIds \ missing, MaxFalse) :
            arg = [k \in CheckIds \ missing |-> k \notin false]
    /\ ret = NotCalled

NextEval == CallEvaluate

SpecEval == InitEval /\ [][NextEval]_allVars

Init ==
    /\ InitWindow
    /\ log \in InitialLogs
    /\ arg = <<>>
    /\ ret = NotCalled

Next ==
    \/ \E k \in CheckIds : Toggle(k, MaxStoreUnticked)
    \/ mark_all_ok
    \/ \E c \in BOOLEAN : reset_all(c)
    \/ \E s \in Strs(MaxChars) : EditJobId(s, MaxChars)
    \/ \E s \in Strs(MaxChars) : EditReviewer(s, MaxChars)
    \/ \E s \in Strs(MaxChars) : EditNotes(s, MaxChars)
    \/ save_row(BOOLEAN, Faults)
    \/ \E path \in {"", LogPath, OtherPath}, fault \in {"none", "open", "flush"} :
          export_csv(path, fault)

Spec == Init /\ [][Next]_allVars

\* Reviews filled in and saved to a new log on a disk that never fails.
InitForm ==
    /\ InitWindow
    /\ log = NoFile
    /\ arg = <<>>
    /\ ret = NotCalled

NextForm ==
    \/ \E k \in CheckIds : Toggle(k, MaxStoreUnticked)
    \/ mark_all_ok
    \/ \E c \in BOOLEAN : reset_all(c)
    \/ \E s \in Strs(MaxFormChars) : EditJobId(s, MaxFormChars)
    \/ \E s \in Strs(MaxFormChars) : EditReviewer(s, MaxFormChars)
    \/ \E s \in Strs(MaxFormChars) : EditNotes(s, MaxFormChars)
    \/ save_row({FALSE}, {"none"})

SpecForm == InitForm /\ [][NextForm]_allVars

\* Direct calls of verdict_line on any verdict and notes, and Copy Verdict on
\* the window as constructed.
InitVerdict ==
    /\ InitWindow
    /\ log = NoFile
    /\ \E result \in {"PASS", "FAIL"} :
       \E reason \in {""} \cup Range(FAIL_REASONS) :
       \E notes \in {None} \cup {Str(n) : n \in Strs(MaxNoteChars)} :
          arg = [result |-> result, reason |-> reason, notes |-> notes]
    /\ ret = NotCalled

NextVerdict ==
    \/ CallVerdictLine
    \/ copy_verdict

SpecVerdict == InitVerdict /\ [][NextVerdict]_allVars

(* ------------------------------- claims -------------------------------- *)

\* The checks of each of the twelve rules, in the order of their reasons in
\* FAIL_REASONS: A, B, C, D, E-expression, E-pose, E-mouth, F, G-gender/body,
\* G-tone/tint, G-hair, H.
RuleChecks ==
    << {"a_source_provided", "a_target_provided", "a_output_provided"},
       {"b_source_face_clear", "b_source_no_distortions"},
       {"c_target_expression_readable", "c_target_pose_readable",
        "c_target_mouth_readable"},
       {"d_output_identity_preserved", "d_output_features_match"},
       {"e_expression_match"},
       {"e_pose_match"},
       {"e_mouth_match"},
       {"f_no_cutout_edges", "f_no_warping", "f_no_double_features",
        "f_sharpness_consistent", "f_lighting_consistent"},
       {"g_no_gender_body_mismatch"},
       {"g_skin_tone_matches", "g_no_weird_tint"},
       {"g_hairline_natural", "g_no_hair_overlap_weirdness"},
       {"h_no_disfigured_limbs", "h_no_extra_missing_limbs",
        "h_no_background_glitch"} >>

FailingRules(checks) ==
    {i \in 1..Len(RuleChecks) : \E k \in RuleChecks[i] : ~checks[k]}

FirstFailing(checks) ==
    CHOOSE i \in FailingRules(checks) : \A j \in FailingRules(checks) : i <= j

\* C1: on the complete checklist of the window, evaluate returns FAIL with the
\* reason of the first rule (in the fixed order) one of whose checks is
\* false, whatever the later checks are, and PASS with an empty reason exactly
\* when no rule fails; the result label shows that result.
C1_FirstFailingRule ==
    LET r == evaluate(get_checks)
    IN  /\ r.exc = ""
        /\ result_big = r.result
        /\ IF FailingRules(vars) = {}
           THEN r.result = "PASS" /\ r.reason = ""
           ELSE r.result = "FAIL" /\ r.reason = FAIL_REASONS[FirstFailing(vars)]

\* Pose and mouth both fail (expression passes) and the pose reason is shown.
C1_Witness ==
    /\ \A k \in InputIds : vars[k]
    /\ vars["e_expression_match"]
    /\ ~vars["e_pose_match"]
    /\ ~vars["e_mouth_match"]
    /\ reason_label = "Primary fail reason: head pose mismatch (Target -> Output)"

\* C2: a call of evaluate on a dict that lacks a required check-id raises and
\* returns no verdict, whatever the values of the keys present.
C2_MissingKeyRaises ==
    (ret # NotCalled /\ DOMAIN arg # CheckIds) => ret = KeyError

\* The column names a header line spells, when each cell is one name.
Names(line) == [i \in 1..Len(line) |-> line[i][1]]

\* Six metadata columns in the fixed order, then `n` distinct check-ids, all
\* there are, in lexicographic order.
ColumnsAsClaimed(keys, n) ==
    /\ Len(keys) = 6 + n
    /\ SubSeq(keys, 1, 6) = <<"timestamp", "job_id", "reviewer", "result",
                              "primary_fail_reason", "notes">>
    /\ {keys[i] : i \in 7..Len(keys)} = CheckIds
    /\ \A i \in 7..(Len(keys) - 1) :
          LexLess(Spelling[keys[i]], Spelling[keys[i + 1]])

HeaderAsClaimed(line, n) ==
    /\ \A i \in 1..Len(line) : Len(line[i]) = 1
    /\ ColumnsAsClaimed(Names(line), n)

\* The rows Save Row builds and the header lines the program writes (Save Row
\* creating the log, Export CSV when there is no log) have these columns.
ColumnsHold(n) ==
    /\ out.op = "save_row" => ColumnsAsClaimed(out.row.keys, n)
    /\ (out.op = "save_row" /\ ~out.before.exists /\ log.lines # <<>>)
          => HeaderAsClaimed(log.lines[1], n)
    /\ (out.op = "export_csv" /\ ~out.before.exists /\ out.msg = "Exported")
          => /\ Len(out.dest.lines) = 1
             /\ HeaderAsClaimed(out.dest.lines[1], n)

\* C3 as amended: every row built by Save Row and every header line the
\* program writes has the six metadata columns in the fixed order followed by
\* the 26 check-ids in lexicographic order, 32 columns in all.
C3_Columns26 == ColumnsHold(26)

\* Save Row created the log, header line and row.
C3_Witness ==
    /\ out.op = "save_row"
    /\ out.msg = "Saved"
    /\ ~out.before.exists
    /\ Len(log.lines) = 2

\* C3 as claimed: 25 check-ids, 31 columns in all.
C3_Columns25 == ColumnsHold(25)

\* Save Row appended to a log that existed and whose header line names the
\* row's columns (as a set) in another order than the row's own.
ReorderedHeaderCase ==
    /\ out.op = "save_row"
    /\ out.fault = "none"
    /\ out.before.exists
    /\ ReadHeader(out.before) # <<>>
    /\ Range(ReadHeader(out.before)) = {<<k>> : k \in Range(out.row.keys)}
    /\ ReadHeader(out.before) # HeaderCells(out.row.keys)

\* The cells written are the row's values in the existing header's order: the
\* i-th cell is the text of the value whose name is the header's i-th cell.
WrittenInHeaderOrder ==
    LET header == ReadHeader(out.before)
    IN  /\ Len(out.written) = Len(header)
        /\ \A i \in 1..Len(header) :
              \E k \in DOMAIN out.row.val :
                 /\ header[i] = <<k>>
                 /\ out.written[i] =
                       IF k \in CheckIds
                       THEN (IF vars[k] THEN <<"True">> ELSE <<"False">>)
                       ELSE out.row.val[k].v
        /\ ~out.before.torn => log.lines = Append(out.before.lines, out.written)

\* C4 as amended: when _append_csv appends to an existing log whose header
\* line could be read and names the row's column set in a different order,
\* the row is written in the header's order, each value under its own name.
C4_HeaderOrderKept == (ReorderedHeaderCase /\ ~out.readFault) => WrittenInHeaderOrder

C4_Witness ==
    /\ ReorderedHeaderCase
    /\ ~out.readFault
    /\ out.msg = "Saved"
    /\ vars["a_source_provided"] # vars["a_output_provided"]

\* C4 as claimed: whether or not the header line could be read.
C4_HeaderOrderAlways == ReorderedHeaderCase => WrittenInHeaderOrder

\* The last line of the log, read against the log's first line as header,
\* has under every check-id's column the text of that check's value.
RoundTrip ==
    LET header == log.lines[1]
        last == log.lines[Len(log.lines)]
    IN  /\ Len(log.lines) >= 2
        /\ \A k \in CheckIds :
              /\ \E i \in 1..Len(header) : header[i] = <<k>>
              /\ \A i \in 1..Len(header) :
                    header[i] = <<k>> =>
                       /\ i <= Len(last)
                       /\ last[i] = IF vars[k] THEN <<"True">> ELSE <<"False">>

\* The log Save Row found did not exist, or ended in a complete line and had
\* a header line naming exactly the row's columns, which was read or is in
\* the row's own order.
ReconcilableLog ==
    \/ ~out.before.exists
    \/ /\ ~out.before.torn
       /\ ReadHeader(out.before) # <<>>
       /\ Range(ReadHeader(out.before)) = {<<k>> : k \in Range(out.row.keys)}
       /\ Len(ReadHeader(out.before)) = Len(out.row.keys)
       /\ ~out.readFault \/ ReadHeader(out.before) = HeaderCells(out.row.keys)

\* C5 as amended: after a successful Save Row on a log that did not exist, or
\* that ended in a complete line and had a header line naming exactly the
\* row's columns (read successfully, or already in the row's order), the last
\* row read back against the header decodes to the ChecklistState saved.
C5_RoundTripReconcilable ==
    (out.op = "save_row" /\ out.msg = "Saved" /\ ReconcilableLog) => RoundTrip

C5_Witness ==
    /\ out.op = "save_row"
    /\ out.msg = "Saved"
    /\ out.before.exists
    /\ ReadHeader(out.before) # HeaderCells(out.row.keys)
    /\ ReconcilableLog
    /\ vars["a_source_provided"] # vars["a_output_provided"]

\* C5 as claimed: on every log file on which the append succeeds.
C5_RoundTripAlways == (out.op = "save_row" /\ out.msg = "Saved") => RoundTrip

IsPrefix(a, b) == Len(a) <= Len(b) /\ SubSeq(b, 1, Len(a)) = a

\* The content of file f is a prefix of the content of file g.
ContentPrefix(f, g) ==
    LET n == Len(f.lines)
    IN  IF f.torn /\ n > 0
        THEN LET m == Len(f.lines[n])
             IN  /\ Len(g.lines) >= n
                 /\ SubSeq(g.lines, 1, n - 1) = SubSeq(f.lines, 1, n - 1)
                 /\ Len(g.lines[n]) >= m
                 /\ SubSeq(g.lines[n], 1, m - 1) = SubSeq(f.lines[n], 1, m - 1)
                 /\ IsPrefix(f.lines[n][m], g.lines[n][m])
        ELSE IsPrefix(f.lines, g.lines)

\* C6: whatever Save Row or Export CSV does, to whatever destination, the
\* content the log had before is a prefix of its content afterwards.
C6_AppendOnly ==
    (out.op \in {"save_row", "export_csv"} /\ out.before.exists)
       => log.exists /\ ContentPrefix(out.before, log)

\* C7: after a successful Export CSV the destination holds what the log held
\* when the export was requested, or the header line alone if there was none.
C7_ExportCopiesLog ==
    (out.op = "export_csv" /\ out.msg = "Exported") =>
       IF out.before.exists
       THEN out.dest = out.before
       ELSE /\ Len(out.dest.lines) = 1
            /\ HeaderAsClaimed(out.dest.lines[1], Cardinality(CheckIds))

C9_AllOrNothing ==
    (out.op = "save_row" /\ out.msg = "Error") =>
       /\ ~log.torn
       /\ Range(log.lines) \subseteq
             Range(out.before.lines) \cup {HeaderCells(out.row.keys)}

\* t is s without its leading and trailing whitespace.
IsTrimOf(t, s) ==
    /\ t = <<>> \/ (t[1] \notin Whitespace /\ t[Len(t)] \notin Whitespace)
    /\ \E a \in 0..Len(s) : \E b \in 0..(Len(s) - a) :
          /\ t = SubSeq(s, a + 1, Len(s) - b)
          /\ \A i \in 1..a : s[i] \in Whitespace
          /\ \A i \in (Len(s) - b + 1)..Len(s) : s[i] \in Whitespace

\* C10: the row Save Row builds has the ChecklistState in its check columns,
\* the verdict of exactly those values in result and primary_fail_reason
\* (the reason empty if and only if the result is PASS), and the trimmed
\* texts of the entries in job_id, reviewer and notes.
C10_RowIsSnapshot ==
    out.op = "save_row" =>
       LET val == out.row.val
       IN  /\ \A k \in CheckIds : val[k] = Bool(vars[k])
           /\ val["result"].t = "str" /\ val["primary_fail_reason"].t = "str"
           /\ IF FailingRules(vars) = {}
              THEN /\ val["result"].v = <<"PASS">>
                   /\ val["primary_fail_reason"].v = <<>>
              ELSE /\ val["result"].v = <<"FAIL">>
                   /\ val["primary_fail_reason"].v
                         = <<FAIL_REASONS[FirstFailing(vars)]>>
           /\ val["result"].v = <<evaluate(vars).result>>
           /\ (val["primary_fail_reason"].v = <<>>) <=> (val["result"].v = <<"PASS">>)
           /\ val["job_id"].t = "str" /\ IsTrimOf(val["job_id"].v, job_id_var)
           /\ val["reviewer"].t = "str" /\ IsTrimOf(val["reviewer"].v, reviewer_var)
           /\ val["notes"].t = "str" /\ IsTrimOf(val["notes"].v, notes_var)

\* A passing review saved with notes that end in whitespace.
C10_Witness ==
    /\ out.op = "save_row"
    /\ out.msg = "Saved"
    /\ notes_var = <<"x", " ">>
    /\ out.row.val["notes"].v = <<"x">>
    /\ out.row.val["result"].v = <<"PASS">>

\* The arguments of the latest call of verdict_line: the window's verdict and
\* notes for Copy Verdict, `arg` for a direct call.
VerdictArgs ==
    IF out.op = "copy_verdict"
    THEN [result |-> evaluate(vars).result, reason |-> evaluate(vars).reason,
          notes |-> Str(notes_var)]
    ELSE arg

\* The characters of a notes argument; none when it is missing.
NotesChars(notes) == IF notes = None THEN <<>> ELSE notes.v

\* C11: verdict_line returns, for PASS, one fixed sentence whatever the reason
\* and the notes are; for FAIL, "FAIL - Primary: {reason}." followed by
\* " Notes: {notes trimmed at both ends}" if and only if the notes hold a
\* character that is not whitespace (empty, missing and whitespace-only
\* notes add nothing).
C11_VerdictLine ==
    ret # NotCalled =>
       LET a == VerdictArgs
           chars == NotesChars(a.notes)
           base == <<"FAIL", " ", "-", " ", "Primary:", " ">>
                      \o (IF a.reason = "" THEN <<>> ELSE <<a.reason>>) \o <<".">>
           rest == SubSeq(ret.line, Len(base) + 1, Len(ret.line))
       IN  /\ a.result = "PASS" =>
                ret.line = <<"PASS - natural blend, Source identity preserved, Target expression/pose/mouth matched.">>
           /\ a.result = "FAIL" =>
                /\ IsPrefix(base, ret.line)
                /\ IF \A i \in 1..Len(chars) : chars[i] \in Whitespace
                   THEN rest = <<>>
                   ELSE \E t \in Strs(Len(chars)) \ {<<>>} :
                           /\ IsTrimOf(t, chars)
                           /\ rest = <<" ", "Notes:", " ">> \o t

\* A FAIL line whose notes came with whitespace at both ends.
C11_Witness ==
    /\ arg.result = "FAIL"
    /\ arg.reason = "skin tone/lighting inconsistency"
    /\ arg.notes = Str(<<" ", "x", " ">>)
    /\ ret = Line(<<"FAIL", " ", "-", " ", "Primary:", " ",
                    "skin tone/lighting inconsistency",
                    ".", " ", "Notes:", " ", "x">>)

====
